---- MODULE Spec2Model ----
\* Bank-statement reconciliation workflow (ConciliationComponent):
\* import -> automatic matching -> manual adjudication -> confirmation.
EXTENDS Integers, Sequences, FiniteSets, TLC

\* ---------------------------------------------------------------- bounds
MaxOps == 2          \* operations carried by one imported statement
MaxStmt == 2         \* statements the import service hands out in one run
MaxInFlight == 2     \* pending calls of one kind
MaxUserEvents == 6   \* handler invocations (user actions) in one run
MaxSummaryOps == 8   \* operations of a statement in SpecSummary

\* ---------------------------------------------------------------- values
\* A nullable value is a set with at most one element.
Null == {}
Some(v) == {v}
Val(o) == CHOOSE v \in o : TRUE

\* Strings are sequences of characters; " " is the whitespace character.
Texts == { <<>>, <<" ">>, <<" ", "a", " ">> }
Comments == { <<>>, <<" ", "a", " ">> }

RECURSIVE TrimStart(_)
TrimStart(s) == IF s # <<>> /\ Head(s) = " " THEN TrimStart(Tail(s)) ELSE s

RECURSIVE TrimEnd(_)
TrimEnd(s) ==
  IF s # <<>> /\ s[Len(s)] = " " THEN TrimEnd(SubSeq(s, 1, Len(s) - 1)) ELSE s

\* String.prototype.trim
Trim(s) == TrimEnd(TrimStart(s))

\* `text || null`: the empty string is falsy
OrNull(s) == IF s = <<>> THEN Null ELSE Some(s)

\* Array.prototype.map / filter
Map(f(_), s) == [i \in 1..Len(s) |-> f(s[i])]

Filter(s, keep(_)) == SelectSeq(s, keep)

RemoveAt(s, i) == SubSeq(s, 1, i - 1) \o SubSeq(s, i + 1, Len(s))

\* ConciliationOperation: identity, signed amount, label, optional match
Operation(i, tx) ==
  [id |-> i, amount |-> 10 * i, label |-> <<"a">>, matchedTransactionId |-> tx]

\* ConciliationStatement as returned by the import service
Statement(i, ops) == [id |-> i, operations |-> ops]

StatementOperations ==
  {Null} \cup { Some([i \in 1..n |-> Operation(i, Null)]) : n \in {0, MaxOps} }

\* ConciliationMatchResponse: the service sorts every operation of the
\* request into the matched list (annotated with a ledger transaction) or the
\* unmatched list (which it may annotate with a suggested transaction); it
\* may leave out the statement, and an empty list.
Annotated(ops, tx) == [i \in 1..Len(ops) |-> Operation(ops[i].id, tx)]

Listed(l) == IF l = <<>> THEN {Null, Some(l)} ELSE {Some(l)}

MatchResponses(stmt, ops) ==
  UNION { { [statement |-> st, matchedOperations |-> m, unmatchedOperations |-> u] :
              st \in {Null, Some(stmt)},
              m \in Listed(Annotated(SelectSeq(ops, LAMBDA o : o.id \in ids),
                                     Some(<<"a">>))),
              u \in UNION { Listed(Annotated(SelectSeq(ops, LAMBDA o : o.id \notin ids),
                                             tx)) : tx \in {Null, Some(<<"a">>)} } } :
          ids \in SUBSET { ops[i].id : i \in 1..Len(ops) } }

\* statements of up to MaxSummaryOps operations without suggestions
SummaryOperations ==
  { Some([i \in 1..n |-> Operation(i, Null)]) : n \in 0..MaxSummaryOps }

\* the responses where the service matches the operations up to some position
\* and leaves the others unmatched, without a suggestion
PrefixResponses(stmt, ops) ==
  { [statement |-> Some(stmt),
     matchedOperations |-> Some(Annotated(SubSeq(ops, 1, k), Some(<<"a">>))),
     unmatchedOperations |-> Some(Annotated(SubSeq(ops, k + 1, Len(ops)), Null))] :
    k \in 0..Len(ops) }

\* The component stores the lists and the statement of a match response as
\* they come (result.statement ?? statement, [...matched], [...unmatched]):
\* nothing compares them with the request. These are responses of a service
\* that is free in what it lists: at most one matched operation, any unmatched
\* ones, and a statement returned without its operations.
OperationLists(tx, len) ==
  UNION { [1..n -> { Operation(i, tx) : i \in 1..MaxOps }] : n \in 0..len }

UncheckedResponses(stmt) ==
  { [statement |-> st, matchedOperations |-> Some(m), unmatchedOperations |-> Some(u)] :
      st \in {Null, Some(Statement(stmt.id, Some(<<>>)))},
      m \in OperationLists(Some(<<"a">>), 1),
      u \in OperationLists(Null, MaxOps) }

\* ---------------------------------------------------------------- state
VARIABLES
  currentStepIndex, selectedFile, statement, automaticMatches,
  unmatchedOperations, manualDecisions, manualComment, finalComment,
  acknowledgement, finalResult, isImporting, isMatching, isValidating,
  importError, matchError, validationError, autoMatchExecuted,
  importCalls,    \* pending importerReleve calls
  matchCalls,     \* pending rapprocherOperations calls: the statement captured
  confirmCalls,   \* pending validerConciliation calls: the payload sent
  nextStatementId,\* identity the import service gives the next statement
  userEvents,     \* handler invocations so far
  destroyed,      \* the component's DestroyRef has fired
  lastEvent       \* what ran last: a response callback, submitFinalValidation,
                  \* or another handler ("user"); and the notification it raised

session == <<currentStepIndex, statement, automaticMatches, unmatchedOperations,
             manualDecisions, manualComment, finalComment, acknowledgement,
             finalResult, autoMatchExecuted>>
flags == <<isImporting, isMatching, isValidating>>
errors == <<importError, matchError, validationError>>
calls == <<importCalls, matchCalls, confirmCalls, nextStatementId>>
vars == <<userEvents, session, flags, errors, calls, selectedFile, destroyed, lastEvent>>

Event(op, notice) ==
  [op |-> op, notice |-> notice, call |-> FALSE, payload |-> Null]
\* a handler that issued a network call
Calling(op) == [op |-> op, notice |-> "none", call |-> TRUE, payload |-> Null]
\* the error callback of a validerConciliation call that carried payload
Rejected(payload) ==
  [op |-> "validateError", notice |-> "error", call |-> FALSE,
   payload |-> Some(payload)]

StepCount == 4

Init ==
  /\ currentStepIndex = 0
  /\ selectedFile = FALSE
  /\ statement = Null
  /\ automaticMatches = <<>>
  /\ unmatchedOperations = <<>>
  /\ manualDecisions = <<>>
  /\ manualComment = <<>>
  /\ finalComment = <<>>
  /\ acknowledgement = TRUE
  /\ finalResult = Null
  /\ isImporting = FALSE
  /\ isMatching = FALSE
  /\ isValidating = FALSE
  /\ importError = FALSE
  /\ matchError = FALSE
  /\ validationError = FALSE
  /\ autoMatchExecuted = FALSE
  /\ importCalls = 0
  /\ matchCalls = <<>>
  /\ confirmCalls = <<>>
  /\ nextStatementId = 1
  /\ destroyed = FALSE
  /\ userEvents = 0
  /\ lastEvent = Event("init", "none")

\* ---------------------------------------------------------------- derived
\* Math.floor in the place of Math.round
MathRound_Floor(numerator, denominator) == numerator \div denominator

\* Math.round(numerator / denominator), for numerator >= 0 and denominator > 0:
\* the nearest integer, a half rounding up. The quotients met here are exact
\* halves only when they are exact in floating point, so the integer form
\* gives the result of the floating-point expression.
MathRound(numerator, denominator) ==
  (2 * numerator + denominator) \div (2 * denominator)

autoMatchSummary ==
  LET matches == automaticMatches
      unmatched == unmatchedOperations
      total == Len(matches) + Len(unmatched)
      rate == IF total > 0 THEN MathRound(Len(matches) * 100, total) ELSE 0
  IN [total |-> total, matched |-> Len(matches), unmatched |-> Len(unmatched),
      rate |-> rate]

confirmationSummary ==
  LET autoMatches == automaticMatches
      manualIncluded == Filter(manualDecisions, LAMBDA decision : decision.include)
      manualIgnored == Filter(manualDecisions, LAMBDA decision : ~decision.include)
      \* statement?.operations?.length ?? ...: only null and undefined fall back
      totalOperations ==
        IF statement # Null /\ Val(statement).operations # Null
        THEN Len(Val(Val(statement).operations))
        ELSE Len(autoMatches) + Len(manualDecisions)
  IN [totalOperations |-> totalOperations,
      autoMatchesCount |-> Len(autoMatches),
      manualIncludedCount |-> Len(manualIncluded),
      manualIgnoredCount |-> Len(manualIgnored)]

\* the pending test without trim()
IsPending_NoTrim(decision) == ~decision.include /\ Len(decision.notes) = 0

\* manualSelectionStats: the predicate of the `pending` filter
IsPending(decision) == ~decision.include /\ Len(Trim(decision.notes)) = 0

manualSelectionStats ==
  [total |-> Len(manualDecisions),
   included |-> Len(Filter(manualDecisions, LAMBDA d : d.include)),
   pending |-> Len(Filter(manualDecisions, IsPending))]

\* isManualStepComplete satisfied by one included entry
isManualStepComplete_AnyIncluded ==
  IF manualSelectionStats.total = 0 THEN TRUE
  ELSE manualSelectionStats.included > 0

isManualStepComplete ==
  IF manualSelectionStats.total = 0 THEN TRUE
  ELSE manualSelectionStats.pending = 0

\* canSubmitFinal without the acknowledgement test
canSubmitFinal_NoAcknowledgement ==
  IF isValidating THEN FALSE
  ELSE IF statement = Null THEN FALSE
  ELSE IF ~autoMatchExecuted THEN FALSE
  ELSE IF ~isManualStepComplete THEN FALSE
  ELSE TRUE

\* canSubmitFinal without the in-flight test
canSubmitFinal_NoInFlightTest ==
  IF ~acknowledgement THEN FALSE
  ELSE IF statement = Null THEN FALSE
  ELSE IF ~autoMatchExecuted THEN FALSE
  ELSE IF ~isManualStepComplete THEN FALSE
  ELSE TRUE

canSubmitFinal ==
  IF isValidating THEN FALSE
  ELSE IF ~acknowledgement THEN FALSE
  ELSE IF statement = Null THEN FALSE
  ELSE IF ~autoMatchExecuted THEN FALSE
  ELSE IF ~isManualStepComplete THEN FALSE
  ELSE TRUE

\* canAccessStep without the test that admits the stages already reached
canAccessStep_NoBackward(index) ==
  IF index < 0 \/ index >= StepCount THEN FALSE
  ELSE CASE index = 1 -> statement # Null
         [] index = 2 -> autoMatchExecuted
         [] index = 3 -> autoMatchExecuted /\ isManualStepComplete
         [] OTHER -> FALSE

canAccessStep(index) ==
  IF index < 0 \/ index >= StepCount THEN FALSE
  ELSE IF index <= currentStepIndex THEN TRUE
  ELSE CASE index = 1 -> statement # Null
         [] index = 2 -> autoMatchExecuted
         [] index = 3 -> autoMatchExecuted /\ isManualStepComplete
         [] OTHER -> FALSE

\* ---------------------------------------------------------------- import
onFileSelected(hasFile) ==
  /\ ~destroyed
  /\ selectedFile' = hasFile
  /\ importError' = IF hasFile THEN FALSE ELSE importError
  /\ lastEvent' = Event("user", "none")
  /\ UNCHANGED <<session, flags, matchError, validationError, calls, destroyed>>

startImport ==
  /\ ~destroyed
  /\ IF ~selectedFile
     THEN /\ importError' = TRUE
          /\ lastEvent' = Event("user", "none")
          /\ UNCHANGED <<session, flags, matchError, validationError, calls,
                         selectedFile, destroyed>>
     ELSE /\ importCalls < MaxInFlight
          /\ isImporting' = TRUE
          /\ importError' = FALSE
          /\ matchError' = FALSE
          /\ validationError' = FALSE
          /\ finalResult' = Null
          /\ importCalls' = importCalls + 1
          /\ lastEvent' = Calling("user")
          /\ UNCHANGED <<currentStepIndex, statement, automaticMatches,
                         unmatchedOperations, manualDecisions, manualComment,
                         finalComment, acknowledgement, autoMatchExecuted,
                         isMatching, isValidating, matchCalls, confirmCalls,
                         nextStatementId, selectedFile, destroyed>>

\* importNext that keeps the manual ledger of the previous statement
importNext_KeepLedger(ops) ==
  /\ ~destroyed
  /\ importCalls > 0
  /\ nextStatementId <= MaxStmt
  /\ statement' = Some(Statement(nextStatementId, ops))
  /\ currentStepIndex' = 1
  /\ autoMatchExecuted' = FALSE
  /\ automaticMatches' = <<>>
  /\ unmatchedOperations' = IF ops # Null THEN Val(ops) ELSE <<>>
  /\ manualDecisions' = manualDecisions
  /\ manualComment' = <<>>
  /\ finalComment' = <<>>
  /\ acknowledgement' = TRUE
  /\ finalResult' = Null
  /\ selectedFile' = FALSE
  /\ isImporting' = FALSE
  /\ importCalls' = importCalls - 1
  /\ nextStatementId' = nextStatementId + 1
  /\ lastEvent' = Event("importNext", "success")
  /\ UNCHANGED <<isMatching, isValidating, errors, matchCalls, confirmCalls,
                 destroyed>>

\* importerReleve answers: next callback, then finalize
importNext(ops) ==
  /\ ~destroyed
  /\ importCalls > 0
  /\ nextStatementId <= MaxStmt
  /\ statement' = Some(Statement(nextStatementId, ops))
  /\ currentStepIndex' = 1
  /\ autoMatchExecuted' = FALSE
  /\ automaticMatches' = <<>>
  /\ unmatchedOperations' = IF ops # Null THEN Val(ops) ELSE <<>>
  /\ manualDecisions' = <<>>
  /\ manualComment' = <<>>
  /\ finalComment' = <<>>
  /\ acknowledgement' = TRUE
  /\ finalResult' = Null
  /\ selectedFile' = FALSE
  /\ isImporting' = FALSE
  /\ importCalls' = importCalls - 1
  /\ nextStatementId' = nextStatementId + 1
  /\ lastEvent' = Event("importNext", "success")
  /\ UNCHANGED <<isMatching, isValidating, errors, matchCalls, confirmCalls,
                 destroyed>>

\* an import error callback without finalize: isImporting stays set
importFailed_NoFinalize ==
  /\ ~destroyed
  /\ importCalls > 0
  /\ importError' = TRUE
  /\ isImporting' = isImporting
  /\ importCalls' = importCalls - 1
  /\ lastEvent' = Event("importError", "error")
  /\ UNCHANGED <<session, isMatching, isValidating, matchError, validationError,
                 matchCalls, confirmCalls, nextStatementId, selectedFile, destroyed>>

\* importerReleve fails: error callback, then finalize
importFailed ==
  /\ ~destroyed
  /\ importCalls > 0
  /\ importError' = TRUE
  /\ isImporting' = FALSE
  /\ importCalls' = importCalls - 1
  /\ lastEvent' = Event("importError", "error")
  /\ UNCHANGED <<session, isMatching, isValidating, matchError, validationError,
                 matchCalls, confirmCalls, nextStatementId, selectedFile, destroyed>>

\* ---------------------------------------------------------------- matching
launchAutomaticReconciliation ==
  /\ ~destroyed
  /\ IF statement = Null
     THEN /\ lastEvent' = Event("user", "none")
          /\ UNCHANGED <<session, flags, errors, calls, selectedFile, destroyed>>
     ELSE /\ Len(matchCalls) < MaxInFlight
          /\ isMatching' = TRUE
          /\ matchError' = FALSE
          /\ finalResult' = Null
          /\ matchCalls' = Append(matchCalls, Val(statement))
          /\ lastEvent' = Calling("user")
          /\ UNCHANGED <<currentStepIndex, statement, automaticMatches,
                         unmatchedOperations, manualDecisions, manualComment,
                         finalComment, acknowledgement, autoMatchExecuted,
                         isImporting, isValidating, importError, validationError,
                         importCalls, confirmCalls, nextStatementId,
                         selectedFile, destroyed>>

\* a ledger entry that starts included when a transaction is suggested
NewDecision_IncludeSuggested(operation) ==
  [operation |-> operation, include |-> operation.matchedTransactionId # Null,
   transactionId |-> operation.matchedTransactionId, notes |-> <<>>]

\* the ledger entry built for one unmatched operation
NewDecision(operation) ==
  [operation |-> operation, include |-> FALSE,
   transactionId |-> operation.matchedTransactionId, notes |-> <<>>]

\* rapprocherOperations answers call i with result: next callback, then finalize
matchNext(i, result) ==
  LET captured == matchCalls[i]
      nextStatement == IF result.statement # Null THEN Val(result.statement)
                       ELSE captured
      matched == IF result.matchedOperations # Null
                 THEN Val(result.matchedOperations) ELSE <<>>
      unmatched == IF result.unmatchedOperations # Null
                   THEN Val(result.unmatchedOperations) ELSE <<>>
  IN /\ ~destroyed
     /\ statement' = Some(nextStatement)
     /\ automaticMatches' = matched
     /\ unmatchedOperations' = unmatched
     /\ manualDecisions' = Map(NewDecision, unmatched)
     /\ autoMatchExecuted' = TRUE
     /\ isMatching' = FALSE
     /\ matchCalls' = RemoveAt(matchCalls, i)
     /\ lastEvent' = Event("matchNext", "success")
     /\ UNCHANGED <<currentStepIndex, manualComment, finalComment,
                    acknowledgement, finalResult, isImporting, isValidating,
                    errors, importCalls, confirmCalls, nextStatementId,
                    selectedFile, destroyed>>

\* rapprocherOperations fails on call i: error callback, then finalize
matchFailed(i) ==
  /\ ~destroyed
  /\ matchError' = TRUE
  /\ isMatching' = FALSE
  /\ matchCalls' = RemoveAt(matchCalls, i)
  /\ lastEvent' = Event("matchError", "error")
  /\ UNCHANGED <<session, isImporting, isValidating, importError,
                 validationError, importCalls, confirmCalls, nextStatementId,
                 selectedFile, destroyed>>

\* ---------------------------------------------------------------- stages
goToManualStep ==
  /\ ~destroyed
  /\ currentStepIndex' = IF ~autoMatchExecuted THEN currentStepIndex ELSE 2
  /\ lastEvent' = Event("user", "none")
  /\ UNCHANGED <<statement, automaticMatches, unmatchedOperations,
                 manualDecisions, manualComment, finalComment, acknowledgement,
                 finalResult, autoMatchExecuted, flags, errors, calls,
                 selectedFile, destroyed>>

proceedToConfirmation ==
  /\ ~destroyed
  /\ IF ~isManualStepComplete
     THEN /\ currentStepIndex' = currentStepIndex
          /\ lastEvent' = Event("user", "warning")
     ELSE /\ currentStepIndex' = 3
          /\ lastEvent' = Event("user", "none")
  /\ UNCHANGED <<statement, automaticMatches, unmatchedOperations,
                 manualDecisions, manualComment, finalComment, acknowledgement,
                 finalResult, autoMatchExecuted, flags, errors, calls,
                 selectedFile, destroyed>>

\* a navigation that brings an index out of range to the nearest stage
navigateToStep_Clamps(index) ==
  /\ ~destroyed
  /\ currentStepIndex' = IF index < 0 THEN 0
                         ELSE IF index >= StepCount THEN StepCount - 1
                         ELSE IF ~canAccessStep(index) THEN currentStepIndex
                         ELSE index
  /\ lastEvent' = Event("user", "none")
  /\ UNCHANGED <<statement, automaticMatches, unmatchedOperations,
                 manualDecisions, manualComment, finalComment, acknowledgement,
                 finalResult, autoMatchExecuted, flags, errors, calls,
                 selectedFile, destroyed>>

navigateToStep(index) ==
  /\ ~destroyed
  /\ currentStepIndex' = IF ~canAccessStep(index) THEN currentStepIndex ELSE index
  /\ lastEvent' = Event("user", "none")
  /\ UNCHANGED <<statement, automaticMatches, unmatchedOperations,
                 manualDecisions, manualComment, finalComment, acknowledgement,
                 finalResult, autoMatchExecuted, flags, errors, calls,
                 selectedFile, destroyed>>

\* ---------------------------------------------------------------- ledger
EditLedger(decisions) ==
  /\ ~destroyed
  /\ manualDecisions' = decisions
  /\ lastEvent' = Event("user", "none")
  /\ UNCHANGED <<currentStepIndex, statement, automaticMatches,
                 unmatchedOperations, manualComment, finalComment,
                 acknowledgement, finalResult, autoMatchExecuted, flags, errors,
                 calls, selectedFile, destroyed>>

onManualDecisionToggle(operationId, include) ==
  EditLedger(
    Map(LAMBDA decision :
          IF decision.operation.id = operationId
          THEN [decision EXCEPT !.include = include] ELSE decision,
        manualDecisions))

onManualTransactionChange(operationId, value) ==
  EditLedger(
    Map(LAMBDA decision :
          IF decision.operation.id = operationId
          THEN [decision EXCEPT !.transactionId = OrNull(Trim(value))]
          ELSE decision,
        manualDecisions))

onManualNoteChange(operationId, value) ==
  EditLedger(
    Map(LAMBDA decision :
          IF decision.operation.id = operationId
          THEN [decision EXCEPT !.notes = value] ELSE decision,
        manualDecisions))

onManualCommentChange(value) ==
  /\ ~destroyed
  /\ manualComment' = value
  /\ lastEvent' = Event("user", "none")
  /\ UNCHANGED <<currentStepIndex, statement, automaticMatches,
                 unmatchedOperations, manualDecisions, finalComment,
                 acknowledgement, finalResult, autoMatchExecuted, flags, errors,
                 calls, selectedFile, destroyed>>

onAcknowledgeChange(value) ==
  /\ ~destroyed
  /\ acknowledgement' = value
  /\ lastEvent' = Event("user", "none")
  /\ UNCHANGED <<currentStepIndex, statement, automaticMatches,
                 unmatchedOperations, manualDecisions, manualComment,
                 finalComment, finalResult, autoMatchExecuted, flags, errors,
                 calls, selectedFile, destroyed>>

onFinalCommentChange(value) ==
  /\ ~destroyed
  /\ finalComment' = value
  /\ lastEvent' = Event("user", "none")
  /\ UNCHANGED <<currentStepIndex, statement, automaticMatches,
                 unmatchedOperations, manualDecisions, manualComment,
                 acknowledgement, finalResult, autoMatchExecuted, flags, errors,
                 calls, selectedFile, destroyed>>

\* ---------------------------------------------------------------- submission
AutomaticMatchEntry(operation) ==
  [operationId |-> operation.id, transactionId |-> operation.matchedTransactionId,
   amount |-> operation.amount, label |-> operation.label]

\* a manual entry that carries the notes as typed
ManualDecisionEntry_RawNotes(decision) ==
  [operationId |-> decision.operation.id, include |-> decision.include,
   transactionId |-> decision.transactionId,
   notes |-> OrNull(decision.notes)]

ManualDecisionEntry(decision) ==
  [operationId |-> decision.operation.id, include |-> decision.include,
   transactionId |-> decision.transactionId,
   notes |-> OrNull(Trim(decision.notes))]

\* the payload submitFinalValidation assembles from the session
Payload ==
  [statementId |-> Val(statement).id,
   automaticMatches |-> Map(AutomaticMatchEntry, automaticMatches),
   manualDecisions |-> Map(ManualDecisionEntry, manualDecisions),
   comments |-> [manual |-> OrNull(Trim(manualComment)),
                 final |-> OrNull(Trim(finalComment))],
   acknowledgement |-> acknowledgement]

\* a submission whose abort path clears the in-flight flag
submitFinalValidation_AbortClearsFlag ==
  /\ ~destroyed
  /\ IF ~canSubmitFinal
     THEN /\ lastEvent' = Event("submitFinalValidation",
                                IF ~acknowledgement THEN "warning" ELSE "none")
          /\ isValidating' = FALSE
          /\ UNCHANGED <<session, isImporting, isMatching, errors, calls,
                         selectedFile, destroyed>>
     ELSE IF statement = Null
     THEN /\ lastEvent' = Event("submitFinalValidation", "none")
          /\ UNCHANGED <<session, flags, errors, calls, selectedFile, destroyed>>
     ELSE /\ Len(confirmCalls) < MaxInFlight
          /\ isValidating' = TRUE
          /\ validationError' = FALSE
          /\ confirmCalls' = Append(confirmCalls, Payload)
          /\ lastEvent' = Calling("submitFinalValidation")
          /\ UNCHANGED <<session, isImporting, isMatching, importError,
                         matchError, importCalls, matchCalls, nextStatementId,
                         selectedFile, destroyed>>

submitFinalValidation ==
  /\ ~destroyed
  /\ IF ~canSubmitFinal
     THEN /\ lastEvent' = Event("submitFinalValidation",
                                IF ~acknowledgement THEN "warning" ELSE "none")
          /\ UNCHANGED <<session, flags, errors, calls, selectedFile, destroyed>>
     ELSE IF statement = Null
     THEN /\ lastEvent' = Event("submitFinalValidation", "none")
          /\ UNCHANGED <<session, flags, errors, calls, selectedFile, destroyed>>
     ELSE /\ Len(confirmCalls) < MaxInFlight
          /\ isValidating' = TRUE
          /\ validationError' = FALSE
          /\ confirmCalls' = Append(confirmCalls, Payload)
          /\ lastEvent' = Calling("submitFinalValidation")
          /\ UNCHANGED <<session, isImporting, isMatching, importError,
                         matchError, importCalls, matchCalls, nextStatementId,
                         selectedFile, destroyed>>

\* the ConciliationResult the validate service returns for a payload
Result(payload) == [statementId |-> payload.statementId, status |-> "validated"]

\* a next callback that outlives the component (no takeUntilDestroyed)
validateNext_Undisposed(i) ==
  /\ finalResult' = Some(Result(confirmCalls[i]))
  /\ isValidating' = FALSE
  /\ confirmCalls' = RemoveAt(confirmCalls, i)
  /\ lastEvent' = Event("validateNext", "success")
  /\ UNCHANGED <<currentStepIndex, statement, automaticMatches,
                 unmatchedOperations, manualDecisions, manualComment,
                 finalComment, acknowledgement, autoMatchExecuted, isImporting,
                 isMatching, errors, importCalls, matchCalls, nextStatementId,
                 selectedFile, destroyed>>

\* validerConciliation answers call i: next callback, then finalize
validateNext(i) ==
  /\ ~destroyed
  /\ finalResult' = Some(Result(confirmCalls[i]))
  /\ isValidating' = FALSE
  /\ confirmCalls' = RemoveAt(confirmCalls, i)
  /\ lastEvent' = Event("validateNext", "success")
  /\ UNCHANGED <<currentStepIndex, statement, automaticMatches,
                 unmatchedOperations, manualDecisions, manualComment,
                 finalComment, acknowledgement, autoMatchExecuted, isImporting,
                 isMatching, errors, importCalls, matchCalls, nextStatementId,
                 selectedFile, destroyed>>

\* an error callback that also withdraws the acknowledgement
validateFailed_DropsAcknowledgement(i) ==
  /\ ~destroyed
  /\ validationError' = TRUE
  /\ isValidating' = FALSE
  /\ confirmCalls' = RemoveAt(confirmCalls, i)
  /\ lastEvent' = Rejected(confirmCalls[i])
  /\ acknowledgement' = FALSE
  /\ UNCHANGED <<currentStepIndex, statement, automaticMatches,
                 unmatchedOperations, manualDecisions, manualComment,
                 finalComment, finalResult, autoMatchExecuted, isImporting, isMatching, importError, matchError,
                 importCalls, matchCalls, nextStatementId, selectedFile,
                 destroyed>>

\* an error callback without finalize: the in-flight flag stays set
validateFailed_NoFinalize(i) ==
  /\ ~destroyed
  /\ validationError' = TRUE
  /\ isValidating' = isValidating
  /\ confirmCalls' = RemoveAt(confirmCalls, i)
  /\ lastEvent' = Rejected(confirmCalls[i])
  /\ UNCHANGED <<session, isImporting, isMatching, importError, matchError,
                 importCalls, matchCalls, nextStatementId, selectedFile,
                 destroyed>>

\* validerConciliation fails on call i: error callback, then finalize
validateFailed(i) ==
  /\ ~destroyed
  /\ validationError' = TRUE
  /\ isValidating' = FALSE
  /\ confirmCalls' = RemoveAt(confirmCalls, i)
  /\ lastEvent' = Rejected(confirmCalls[i])
  /\ UNCHANGED <<session, isImporting, isMatching, importError, matchError,
                 importCalls, matchCalls, nextStatementId, selectedFile,
                 destroyed>>

\* ---------------------------------------------------------------- teardown
\* Every call is piped through takeUntilDestroyed and finalize: when the
\* DestroyRef fires, each subscription is closed and its finalize callback
\* runs, so no next or error callback runs afterwards (the ~destroyed of the
\* callbacks above).

\* The DestroyRef fires; the requests sent are still with the service.
abandon ==
  /\ ~destroyed
  /\ destroyed' = TRUE
  /\ isImporting' = IF importCalls > 0 THEN FALSE ELSE isImporting
  /\ isMatching' = IF matchCalls # <<>> THEN FALSE ELSE isMatching
  /\ isValidating' = IF confirmCalls # <<>> THEN FALSE ELSE isValidating
  /\ lastEvent' = Event("user", "none")
  /\ UNCHANGED <<session, errors, calls, selectedFile>>

\* The service answers a request whose subscription is closed: no callback.
lateImport ==
  /\ destroyed
  /\ importCalls > 0
  /\ importCalls' = importCalls - 1
  /\ lastEvent' = Event("lateImport", "none")
  /\ UNCHANGED <<session, flags, errors, matchCalls, confirmCalls,
                 nextStatementId, selectedFile, destroyed>>

lateMatch(i) ==
  /\ destroyed
  /\ matchCalls' = RemoveAt(matchCalls, i)
  /\ lastEvent' = Event("lateMatch", "none")
  /\ UNCHANGED <<session, flags, errors, importCalls, confirmCalls,
                 nextStatementId, selectedFile, destroyed>>

lateConfirm(i) ==
  /\ destroyed
  /\ confirmCalls' = RemoveAt(confirmCalls, i)
  /\ lastEvent' = Event("lateConfirm", "none")
  /\ UNCHANGED <<session, flags, errors, importCalls, matchCalls,
                 nextStatementId, selectedFile, destroyed>>

\* The teardown as one step: abandon, then every late answer, none of which
\* the component sees.
destroy ==
  /\ ~destroyed
  /\ destroyed' = TRUE
  /\ isImporting' = IF importCalls > 0 THEN FALSE ELSE isImporting
  /\ isMatching' = IF matchCalls # <<>> THEN FALSE ELSE isMatching
  /\ isValidating' = IF confirmCalls # <<>> THEN FALSE ELSE isValidating
  /\ importCalls' = 0
  /\ matchCalls' = <<>>
  /\ confirmCalls' = <<>>
  /\ lastEvent' = Event("user", "none")
  /\ UNCHANGED <<session, errors, nextStatementId, selectedFile>>

\* ---------------------------------------------------------------- behaviour
OperationIds == 1..(MaxOps + 1)

\* a handler runs on a user action; a callback runs when a call answers
UserEvent == userEvents < MaxUserEvents /\ userEvents' = userEvents + 1
Response == UNCHANGED userEvents

Next ==
  \/ UserEvent /\ \E hasFile \in BOOLEAN : onFileSelected(hasFile)
  \/ UserEvent /\ startImport
  \/ Response /\ \E ops \in StatementOperations : importNext(ops)
  \/ Response /\ importFailed
  \/ UserEvent /\ launchAutomaticReconciliation
  \/ Response /\ \E i \in 1..Len(matchCalls) :
       \E result \in MatchResponses(matchCalls[i],
                       IF matchCalls[i].operations # Null
                       THEN Val(matchCalls[i].operations) ELSE <<>>) :
         matchNext(i, result)
  \/ Response /\ \E i \in 1..Len(matchCalls) : matchFailed(i)
  \/ UserEvent /\ goToManualStep
  \/ UserEvent /\ proceedToConfirmation
  \/ UserEvent /\ \E index \in -1..StepCount : navigateToStep(index)
  \/ UserEvent /\ \E id \in OperationIds, include \in BOOLEAN :
       onManualDecisionToggle(id, include)
  \/ UserEvent /\ \E id \in OperationIds, value \in Texts :
       onManualTransactionChange(id, value)
  \/ UserEvent /\ \E id \in OperationIds, value \in Texts :
       onManualNoteChange(id, value)
  \/ UserEvent /\ \E value \in Comments : onManualCommentChange(value)
  \/ UserEvent /\ \E value \in BOOLEAN : onAcknowledgeChange(value)
  \/ UserEvent /\ \E value \in Comments : onFinalCommentChange(value)
  \/ UserEvent /\ submitFinalValidation
  \/ Response /\ \E i \in 1..Len(confirmCalls) : validateNext(i)
  \/ Response /\ \E i \in 1..Len(confirmCalls) : validateFailed(i)
  \/ UserEvent /\ destroy

Spec == Init /\ [][Next]_vars

\* ---------------------------------------------------------------- ledger edits
\* The steps that build the ledger, from responses that are not checked, and
\* the three handlers that edit it.
NextLedger ==
  \/ UserEvent /\ onFileSelected(TRUE)
  \/ UserEvent /\ startImport
  \/ Response /\ \E ops \in StatementOperations : importNext(ops)
  \/ UserEvent /\ launchAutomaticReconciliation
  \/ Response /\ \E i \in 1..Len(matchCalls) :
       \E result \in UncheckedResponses(matchCalls[i]) : matchNext(i, result)
  \/ UserEvent /\ \E id \in OperationIds, include \in BOOLEAN :
       onManualDecisionToggle(id, include)
  \/ UserEvent /\ \E id \in OperationIds, value \in Texts :
       onManualTransactionChange(id, value)
  \/ UserEvent /\ \E id \in OperationIds, value \in Texts :
       onManualNoteChange(id, value)

SpecLedger == Init /\ [][NextLedger]_vars

\* ---------------------------------------------------------------- stage moves
\* The steps that fill the session and the handlers that move between stages.
NextStages ==
  \/ UserEvent /\ onFileSelected(TRUE)
  \/ UserEvent /\ startImport
  \/ Response /\ \E ops \in StatementOperations : importNext(ops)
  \/ UserEvent /\ launchAutomaticReconciliation
  \/ Response /\ \E i \in 1..Len(matchCalls) :
       \E result \in PrefixResponses(matchCalls[i],
                       IF matchCalls[i].operations # Null
                       THEN Val(matchCalls[i].operations) ELSE <<>>) :
         matchNext(i, result)
  \/ UserEvent /\ goToManualStep
  \/ UserEvent /\ proceedToConfirmation
  \/ UserEvent /\ \E index \in -1..StepCount : navigateToStep(index)
  \/ UserEvent /\ \E id \in OperationIds, include \in BOOLEAN :
       onManualDecisionToggle(id, include)

SpecStages == Init /\ [][NextStages]_vars

\* ---------------------------------------------------------------- abandonment
\* A session that issues its calls and is abandoned while they are pending.
NextTeardown ==
  \/ UserEvent /\ onFileSelected(TRUE)
  \/ UserEvent /\ startImport
  \/ Response /\ \E ops \in StatementOperations : importNext(ops)
  \/ UserEvent /\ launchAutomaticReconciliation
  \/ Response /\ \E i \in 1..Len(matchCalls) :
       \E result \in PrefixResponses(matchCalls[i],
                       IF matchCalls[i].operations # Null
                       THEN Val(matchCalls[i].operations) ELSE <<>>) :
         matchNext(i, result)
  \/ UserEvent /\ submitFinalValidation
  \/ Response /\ \E i \in 1..Len(confirmCalls) : validateNext(i)
  \/ UserEvent /\ abandon
  \/ Response /\ lateImport
  \/ Response /\ \E i \in 1..Len(matchCalls) : lateMatch(i)
  \/ Response /\ \E i \in 1..Len(confirmCalls) : lateConfirm(i)

SpecTeardown == Init /\ [][NextTeardown]_vars

\* ---------------------------------------------------------------- answers
\* The three calls and their answers, under a service that answers every
\* request it holds: each kind of answer is weakly fair.
ImportAnswers ==
  Response /\ ((\E ops \in StatementOperations : importNext(ops)) \/ importFailed)

MatchAnswers ==
  Response /\ \E i \in 1..Len(matchCalls) :
    \/ \E result \in PrefixResponses(matchCalls[i],
                      IF matchCalls[i].operations # Null
                      THEN Val(matchCalls[i].operations) ELSE <<>>) :
         matchNext(i, result)
    \/ matchFailed(i)

ConfirmAnswers ==
  Response /\ \E i \in 1..Len(confirmCalls) : validateNext(i) \/ validateFailed(i)

NextCalls ==
  \/ UserEvent /\ onFileSelected(TRUE)
  \/ UserEvent /\ startImport
  \/ UserEvent /\ launchAutomaticReconciliation
  \/ UserEvent /\ submitFinalValidation
  \/ ImportAnswers
  \/ MatchAnswers
  \/ ConfirmAnswers

SpecCalls ==
  /\ Init /\ [][NextCalls]_vars
  /\ WF_vars(ImportAnswers) /\ WF_vars(MatchAnswers) /\ WF_vars(ConfirmAnswers)

\* ---------------------------------------------------------------- summary
\* Statements of up to MaxSummaryOps operations, imported and matched.
NextSummary ==
  \/ UserEvent /\ onFileSelected(TRUE)
  \/ UserEvent /\ startImport
  \/ Response /\ \E ops \in SummaryOperations : importNext(ops)
  \/ UserEvent /\ launchAutomaticReconciliation
  \/ Response /\ \E i \in 1..Len(matchCalls) :
       \E result \in PrefixResponses(matchCalls[i],
                       IF matchCalls[i].operations # Null
                       THEN Val(matchCalls[i].operations) ELSE <<>>) :
         matchNext(i, result)

SpecSummary == Init /\ [][NextSummary]_vars

\* ---------------------------------------------------------------- responses
\* Import and matching against a service whose responses are not checked.
NextUnchecked ==
  \/ UserEvent /\ onFileSelected(TRUE)
  \/ UserEvent /\ startImport
  \/ Response /\ \E ops \in StatementOperations : importNext(ops)
  \/ UserEvent /\ launchAutomaticReconciliation
  \/ Response /\ \E i \in 1..Len(matchCalls) :
       \E result \in UncheckedResponses(matchCalls[i]) : matchNext(i, result)

SpecUnchecked == Init /\ [][NextUnchecked]_vars

\* ---------------------------------------------------------------- properties
\* a text that is empty once its whitespace is trimmed
Blank(text) == \A k \in 1..Len(text) : text[k] = " "

\* a ledger entry with neither inclusion nor an explanatory note
Unresolved(decision) == ~decision.include /\ Blank(decision.notes)

LedgerResolved == \A i \in 1..Len(manualDecisions) : ~Unresolved(manualDecisions[i])

\* C1: a step that adds a validerConciliation call starts in a state where no
\* submission is in flight, the acknowledgement is set, a statement is present,
\* automatic matching has run and every ledger entry is resolved.
C1_SubmitOnlyWhenPermitted ==
  [][Len(confirmCalls') > Len(confirmCalls) =>
       /\ ~isValidating
       /\ confirmCalls = <<>>
       /\ acknowledgement
       /\ statement # Null
       /\ autoMatchExecuted
       /\ LedgerResolved]_vars

\* a submission was sent for a ledger that holds a resolved entry
C1_Witness ==
  /\ lastEvent = Calling("submitFinalValidation")
  /\ Len(confirmCalls) = 1
  /\ manualDecisions # <<>>

\* C2: canAccessStep(3) is true iff automatic matching has completed and the
\* manual ledger is complete, whichever stage is active.
C2_ConfirmationReachableIff ==
  canAccessStep(3) <=> (autoMatchExecuted /\ isManualStepComplete)

\* C3: the active stage satisfies its prerequisites: a statement from
\* Automatic on, automatic matching completed from Manual on.
C3_ActiveStagePrerequisites ==
  /\ currentStepIndex >= 1 => statement # Null
  /\ currentStepIndex >= 2 => autoMatchExecuted

\* C4: the pending count is the number of entries with include false and
\* blank notes, and the ledger is complete iff no entry is such (so the empty
\* ledger is complete).
C4_PendingAndComplete ==
  /\ manualSelectionStats.pending =
       Cardinality({i \in 1..Len(manualDecisions) : Unresolved(manualDecisions[i])})
  /\ isManualStepComplete <=> LedgerResolved

\* an excluded entry whose notes are whitespace only, next to a resolved one
C4_Witness ==
  /\ \E i \in 1..Len(manualDecisions) :
       ~manualDecisions[i].include /\ manualDecisions[i].notes = <<" ">>
  /\ \E i \in 1..Len(manualDecisions) : ~Unresolved(manualDecisions[i])

\* C5: no manual entry of a payload sent to validerConciliation has include
\* false together with absent notes.
C5_PayloadAuditTrail ==
  \A c \in 1..Len(confirmCalls) :
    \A k \in 1..Len(confirmCalls[c].manualDecisions) :
      ~(~confirmCalls[c].manualDecisions[k].include
        /\ confirmCalls[c].manualDecisions[k].notes = Null)

\* a payload in flight carries an excluded entry with its trimmed note
C5_Witness ==
  \E c \in 1..Len(confirmCalls) :
    \E k \in 1..Len(confirmCalls[c].manualDecisions) :
      /\ ~confirmCalls[c].manualDecisions[k].include
      /\ confirmCalls[c].manualDecisions[k].notes = Some(<<"a">>)

\* C6: at most one validerConciliation call is pending, and isValidating is
\* true exactly while one is.
C6_SingleConfirmInFlight ==
  /\ Len(confirmCalls) <= 1
  /\ isValidating <=> Len(confirmCalls) = 1

\* submitFinalValidation ran while a submission was pending, every other
\* precondition met, and issued no call
C6_Witness ==
  /\ lastEvent.op = "submitFinalValidation"
  /\ ~lastEvent.call
  /\ Len(confirmCalls) = 1
  /\ acknowledgement /\ statement # Null /\ autoMatchExecuted /\ LedgerResolved

\* C7: at most one importerReleve call and at most one rapprocherOperations
\* call are pending at any time.
C7_OneImportOneMatchInFlight ==
  /\ importCalls <= 1
  /\ Len(matchCalls) <= 1

\* C8: the session holds the statement of the latest successful import, and
\* the result it holds answers a submission made for that statement.
C8_ResponsesBelongToSession ==
  /\ statement # Null => Val(statement).id = nextStatementId - 1
  /\ finalResult # Null =>
       statement # Null /\ Val(finalResult).statementId = Val(statement).id

\* C9: right after a successful import response the automatic matches and the
\* ledger are empty, autoMatchExecuted is false, finalResult is null, both
\* comments are empty and the Automatic stage is active.
C9_ImportResetsSession ==
  lastEvent.op = "importNext" =>
    /\ automaticMatches = <<>>
    /\ manualDecisions = <<>>
    /\ ~autoMatchExecuted
    /\ finalResult = Null
    /\ manualComment = <<>>
    /\ finalComment = <<>>
    /\ currentStepIndex = 1

\* a second statement was imported over a session that had run matching and
\* submitted a payload with an automatic match
C9_Witness ==
  /\ lastEvent.op = "importNext"
  /\ Val(statement).id = 2
  /\ \E c \in 1..Len(confirmCalls) : confirmCalls[c].automaticMatches # <<>>

\* C10: right after a successful match response the ledger has one entry per
\* unmatched operation returned, in the same order, each excluded, with empty
\* notes and therefore pending.
C10_LedgerRebuilt ==
  lastEvent.op = "matchNext" =>
    /\ Len(manualDecisions) = Len(unmatchedOperations)
    /\ \A i \in 1..Len(manualDecisions) :
         /\ manualDecisions[i].operation = unmatchedOperations[i]
         /\ ~manualDecisions[i].include
         /\ manualDecisions[i].notes = <<>>
    /\ manualSelectionStats.pending = Len(unmatchedOperations)

\* a match response rebuilt a two-entry ledger while a payload in flight still
\* carries an entry the user had included before
C10_Witness ==
  /\ lastEvent.op = "matchNext"
  /\ Len(manualDecisions) = 2
  /\ manualDecisions[1].operation.id # manualDecisions[2].operation.id
  /\ \E c \in 1..Len(confirmCalls) :
       \E k \in 1..Len(confirmCalls[c].manualDecisions) :
         confirmCalls[c].manualDecisions[k].include

\* the ledger keeps its length, its order, and every entry of another operation
LedgerFrame(operationId) ==
  /\ Len(manualDecisions') = Len(manualDecisions)
  /\ \A i \in 1..Len(manualDecisions) :
       /\ manualDecisions'[i].operation = manualDecisions[i].operation
       /\ manualDecisions[i].operation.id # operationId =>
            manualDecisions'[i] = manualDecisions[i]
  /\ Cardinality({i \in 1..Len(manualDecisions) :
                    manualDecisions'[i] # manualDecisions[i]}) <= 1
  /\ (\A i \in 1..Len(manualDecisions) :
        manualDecisions[i].operation.id # operationId) =>
       manualDecisions' = manualDecisions

\* the entry of the operation before and after the step
Targeted(operationId) ==
  {<<manualDecisions[i], manualDecisions'[i]>> :
     i \in {j \in 1..Len(manualDecisions) :
              manualDecisions[j].operation.id = operationId}}

\* C11: a ledger handler called with an operation id changes only the targeted
\* field of the entry of that operation, keeps every other entry, the length
\* and the order, and leaves the ledger as it is when no entry has that id.
C11_LedgerEditFrame ==
  [][(lastEvent'.op = "user" /\ UNCHANGED <<statement, flags, calls>>) =>
     /\ \A id \in OperationIds, include \in BOOLEAN :
          onManualDecisionToggle(id, include) =>
            /\ LedgerFrame(id)
            /\ \A e \in Targeted(id) :
                 /\ e[2].include = include
                 /\ e[2].transactionId = e[1].transactionId
                 /\ e[2].notes = e[1].notes
     /\ \A id \in OperationIds, value \in Texts :
          onManualTransactionChange(id, value) =>
            /\ LedgerFrame(id)
            /\ \A e \in Targeted(id) :
                 /\ e[2].include = e[1].include
                 /\ e[2].transactionId \in {Null, Some(<<"a">>)}
                 /\ e[2].transactionId = Null <=> Blank(value)
                 /\ e[2].notes = e[1].notes
     /\ \A id \in OperationIds, value \in Texts :
          onManualNoteChange(id, value) =>
            /\ LedgerFrame(id)
            /\ \A e \in Targeted(id) :
                 /\ e[2].include = e[1].include
                 /\ e[2].transactionId = e[1].transactionId
                 /\ e[2].notes = value]_vars

\* C12: the error callback of a confirm call leaves the statement, the
\* automatic matches, the ledger, the comments, the acknowledgement, the
\* stage and finalResult as they are, sets validationError and clears
\* isValidating, so that submission depends on the other preconditions only.
C12_ConfirmFailureFrame ==
  [][lastEvent'.op = "validateError" =>
       /\ UNCHANGED session
       /\ validationError'
       /\ ~isValidating'
       /\ canSubmitFinal' <=>
            (acknowledgement /\ statement # Null /\ autoMatchExecuted
             /\ LedgerResolved)]_vars

\* a confirm call for a non-empty ledger failed and submission is enabled
C12_Witness ==
  /\ lastEvent.op = "validateError"
  /\ validationError
  /\ ~isValidating
  /\ manualDecisions # <<>>
  /\ canSubmitFinal

\* C13: when submitFinalValidation runs right after a confirm call failed,
\* on a session that still yields the payload of the failed call, it issues a
\* call, and the payload of that call equals the failed one.
C13_RetryIdenticalPayload ==
  [][(/\ lastEvent.op = "validateError"
      /\ lastEvent'.op = "submitFinalValidation"
      /\ statement # Null
      /\ Val(lastEvent.payload) = Payload) =>
       /\ lastEvent'.call
       /\ confirmCalls' = <<Val(lastEvent.payload)>>]_vars

\* a confirm call carrying a manual decision has just failed, the session
\* still yields its payload, and the user can submit again
C13_Witness ==
  /\ lastEvent.op = "validateError"
  /\ Val(lastEvent.payload).manualDecisions # <<>>
  /\ Val(lastEvent.payload) = Payload
  /\ canSubmitFinal
  /\ userEvents < MaxUserEvents

\* C14: once finalResult is set, no handler changes the statement, the
\* automatic matches or the ledger, and none issues a match or confirm call.
C14_ReadOnlyAfterSuccess ==
  [][(finalResult # Null /\ lastEvent'.op \in {"user", "submitFinalValidation"}) =>
       /\ statement' = statement
       /\ automaticMatches' = automaticMatches
       /\ manualDecisions' = manualDecisions
       /\ Len(matchCalls') <= Len(matchCalls)
       /\ Len(confirmCalls') <= Len(confirmCalls)]_vars

\* C15: finalResult changes only from null, in the next callback of a confirm
\* call; once non-null it is neither overwritten nor cleared.
C15_ResultWriteOnce ==
  [][finalResult' # finalResult =>
       (finalResult = Null /\ lastEvent'.op = "validateNext")]_vars

\* C16: the error callback of a match call leaves the statement, the matches,
\* the ledger, autoMatchExecuted and the stage as they are and sets matchError;
\* when matching never completed, the Manual stage stays unreachable.
C16_MatchFailureFrame ==
  [][lastEvent'.op = "matchError" =>
       /\ UNCHANGED <<statement, automaticMatches, manualDecisions,
                      autoMatchExecuted, currentStepIndex>>
       /\ matchError'
       /\ ~autoMatchExecuted' => ~canAccessStep(2)']_vars

\* C17: a submitFinalValidation that issues no call leaves the session, the
\* in-flight flags and the pending calls as they are.
C17_AbortFrame ==
  [][(lastEvent'.op = "submitFinalValidation" /\ ~lastEvent'.call) =>
       UNCHANGED <<session, flags, calls>>]_vars

\* submitFinalValidation aborted on the acknowledgement alone, with a
\* resolved non-empty ledger
C17_Witness ==
  /\ lastEvent = Event("submitFinalValidation", "warning")
  /\ ~acknowledgement
  /\ statement # Null /\ autoMatchExecuted /\ LedgerResolved /\ ~isValidating
  /\ manualDecisions # <<>>

\* C18: a submitFinalValidation that issues no call notifies the user.
C18_AbortNotifies ==
  (lastEvent.op = "submitFinalValidation" /\ ~lastEvent.call) =>
    lastEvent.notice # "none"

\* C19: the acknowledgement is unset in a fresh session and right after a
\* successful import.
C19_AcknowledgementStartsUnset ==
  lastEvent.op \in {"init", "importNext"} => ~acknowledgement

\* C20: the match summary has matched + unmatched = total; its rate is 0 when
\* total is 0 and otherwise the integer nearest to matched / total * 100, a
\* half rounding up; the rate is an integer of 0..100.
C20_MatchSummary ==
  LET s == autoMatchSummary
  IN /\ s.matched = Len(automaticMatches)
     /\ s.unmatched = Len(unmatchedOperations)
     /\ s.matched + s.unmatched = s.total
     /\ s.rate \in 0..100
     /\ s.total = 0 => s.rate = 0
     /\ s.total > 0 =>
          /\ 2 * s.rate * s.total - 200 * s.matched <= s.total
          /\ 2 * s.rate * s.total - 200 * s.matched > -s.total

\* one operation of eight matched: 12.5 rounds to 13
C20_Witness ==
  /\ autoMatchSummary.total = 8
  /\ autoMatchSummary.matched = 1
  /\ autoMatchSummary.rate = 13

\* C21: the match summary counts the ledger: its unmatched count is the number
\* of ledger entries and its matched count the number of automatic matches, in
\* every state, also between an import and the next match response.
C21_SummaryCountsLedger ==
  /\ autoMatchSummary.unmatched = Len(manualDecisions)
  /\ autoMatchSummary.matched = Len(automaticMatches)

\* the operation identities of a list, and whether none occurs twice
Ids(ops) == { ops[i].id : i \in 1..Len(ops) }
Distinct(ops) == Cardinality(Ids(ops)) = Len(ops)

\* C22: right after a successful match response no operation identity is in
\* both the automatic matches and the ledger, and none occurs twice in either.
C22_OperationsPartitioned ==
  lastEvent.op = "matchNext" =>
    LET ledger == [i \in 1..Len(manualDecisions) |-> manualDecisions[i].operation]
    IN /\ Ids(automaticMatches) \cap Ids(ledger) = {}
       /\ Distinct(automaticMatches)
       /\ Distinct(ledger)

\* C28: the confirmation summary's totalOperations is the number of operations
\* the statement carries when it carries at least one, and the number of
\* automatic matches plus the number of ledger entries otherwise, both when the
\* statement has no operations list and when that list is empty.
C28_TotalOperationsFallback ==
  LET carried == IF statement # Null /\ Val(statement).operations # Null
                 THEN Len(Val(Val(statement).operations)) ELSE 0
  IN confirmationSummary.totalOperations =
       IF carried >= 1 THEN carried
       ELSE Len(automaticMatches) + Len(manualDecisions)

\* everything a navigation could touch besides the active stage
Data == <<statement, automaticMatches, unmatchedOperations, manualDecisions,
          manualComment, finalComment, acknowledgement, finalResult,
          autoMatchExecuted, flags, errors, calls, selectedFile>>

\* C23: navigateToStep(index) with an index out of range, or of a stage that
\* canAccessStep refuses, changes neither the active stage nor any data.
C23_RejectedNavigation ==
  [][lastEvent'.op = "user" =>
       \A index \in -1..StepCount :
         (~canAccessStep(index) /\ navigateToStep(index)) =>
           UNCHANGED <<currentStepIndex, Data>>]_vars

\* on the Manual stage with a pending entry and a match call in flight, where
\* the Confirmation stage is refused, after a handler that changed nothing
C23_Witness ==
  /\ lastEvent = Event("user", "none")
  /\ currentStepIndex = 2
  /\ ~canAccessStep(3)
  /\ manualDecisions # <<>>
  /\ Len(matchCalls) = 1

\* C24: every stage below the active one is accessible, and navigateToStep to
\* it makes it the active stage and changes nothing else, whatever the
\* session holds and whichever calls are pending.
C24_BackwardNavigation ==
  /\ [](\A index \in 0..(StepCount - 1) :
          index < currentStepIndex => canAccessStep(index))
  /\ [][lastEvent'.op = "user" =>
          \A index \in 0..(StepCount - 1) :
            (index < currentStepIndex /\ navigateToStep(index)) =>
              (currentStepIndex' = index /\ UNCHANGED Data)]_vars

\* back on the Import stage with a submission still pending and a session
\* that holds a statement, its matches and a ledger
C24_Witness ==
  /\ lastEvent = Event("user", "none")
  /\ currentStepIndex = 0
  /\ statement # Null /\ autoMatchExecuted
  /\ isValidating /\ Len(confirmCalls) = 1

\* C26: goToManualStep before automatic matching has completed, and
\* proceedToConfirmation with a pending entry, leave the active stage as it is
\* and notify the user.
C26_FailedAdvanceReports ==
  [][/\ (~autoMatchExecuted /\ goToManualStep) =>
          (currentStepIndex' = currentStepIndex /\ lastEvent'.notice # "none")
     /\ (~isManualStepComplete /\ proceedToConfirmation) =>
          (currentStepIndex' = currentStepIndex /\ lastEvent'.notice # "none")]_vars

\* C29: while the Confirmation stage is active, no ledger entry is pending.
C29_ConfirmationLedgerComplete ==
  currentStepIndex = 3 => LedgerResolved

\* a text without the whitespace before its first and after its last other
\* character, absent when nothing is left
Stripped(text) ==
  LET inked == {k \in 1..Len(text) : text[k] # " "}
  IN IF inked = {} THEN Null
     ELSE Some(SubSeq(text, CHOOSE k \in inked : \A j \in inked : k <= j,
                            CHOOSE k \in inked : \A j \in inked : k >= j))

\* C27: the payload submitFinalValidation has just sent mirrors the session:
\* one automatic entry per automatic match (operation id, transaction id,
\* amount, label) and one manual entry per ledger entry (operation id, include
\* flag, transaction id, stripped notes or null), in the same order, the
\* acknowledgement true and both comments stripped or null.
C27_PayloadMirrorsSession ==
  lastEvent = Calling("submitFinalValidation") =>
    LET payload == confirmCalls[Len(confirmCalls)]
    IN /\ payload.statementId = Val(statement).id
       /\ Len(payload.automaticMatches) = Len(automaticMatches)
       /\ \A i \in 1..Len(automaticMatches) :
            /\ payload.automaticMatches[i].operationId = automaticMatches[i].id
            /\ payload.automaticMatches[i].transactionId =
                 automaticMatches[i].matchedTransactionId
            /\ payload.automaticMatches[i].amount = automaticMatches[i].amount
            /\ payload.automaticMatches[i].label = automaticMatches[i].label
       /\ Len(payload.manualDecisions) = Len(manualDecisions)
       /\ \A i \in 1..Len(manualDecisions) :
            /\ payload.manualDecisions[i].operationId =
                 manualDecisions[i].operation.id
            /\ payload.manualDecisions[i].include = manualDecisions[i].include
            /\ payload.manualDecisions[i].transactionId =
                 manualDecisions[i].transactionId
            /\ payload.manualDecisions[i].notes = Stripped(manualDecisions[i].notes)
       /\ payload.acknowledgement = TRUE
       /\ payload.comments.manual = Stripped(manualComment)
       /\ payload.comments.final = Stripped(finalComment)

\* a payload was just sent for a session with an automatic match and a ledger
\* entry whose notes are padded with whitespace
C27_Witness ==
  /\ lastEvent = Calling("submitFinalValidation")
  /\ automaticMatches # <<>>
  /\ \E i \in 1..Len(manualDecisions) : manualDecisions[i].notes = <<" ", "a", " ">>

\* C25: once the component is destroyed, no step (in particular no answer to a
\* call that was pending) changes the statement, the automatic matches, the
\* ledger, the active stage or finalResult.
C25_AbandonedSessionUntouched ==
  [][destroyed =>
       UNCHANGED <<statement, automaticMatches, manualDecisions,
                   currentStepIndex, finalResult>>]_vars

\* the answer to a confirm call arrived after the component was destroyed
C25_Witness ==
  /\ destroyed
  /\ lastEvent.op = "lateConfirm"
  /\ finalResult = Null

\* C30: under a service that answers, every pending import, match or confirm
\* call leads to a state where no call of its kind is pending and the flag of
\* that kind is false; a call leaves the pending ones only through its next
\* callback, which applies the result, or its error callback, which sets the
\* error message of that action.
C30_CallsSettle ==
  /\ (importCalls > 0) ~> (importCalls = 0 /\ ~isImporting)
  /\ (matchCalls # <<>>) ~> (matchCalls = <<>> /\ ~isMatching)
  /\ (confirmCalls # <<>>) ~> (confirmCalls = <<>> /\ ~isValidating)
  /\ [][/\ importCalls' < importCalls =>
            \/ lastEvent'.op = "importNext" /\ statement' # Null
            \/ lastEvent'.op = "importError" /\ importError'
        /\ Len(matchCalls') < Len(matchCalls) =>
            \/ lastEvent'.op = "matchNext" /\ autoMatchExecuted'
            \/ lastEvent'.op = "matchError" /\ matchError'
        /\ Len(confirmCalls') < Len(confirmCalls) =>
            \/ lastEvent'.op = "validateNext" /\ finalResult' # Null
            \/ lastEvent'.op = "validateError" /\ validationError']_vars

\* an import has failed after another one succeeded, and none is pending
C30_Witness ==
  /\ lastEvent.op = "importError"
  /\ statement # Null
  /\ importCalls = 0 /\ ~isImporting /\ importError

====
